---- MODULE Spec2Model ----
(***************************************************************************)
(* The event lifecycle engine of the OpenADR 2.0a VEN (oadr2):             *)
(* EventHandler (event.py), EventSchema (schemas.py), DBHandler            *)
(* (eventdb.py) and EventController (controller.py).                       *)
(*                                                                         *)
(* Instants and durations are integers (one unit of wall-clock time).      *)
(* An optional value (Python None or a value) is a sequence of length 0    *)
(* or 1.  The events table is a function from the stored ids to rows.      *)
(* A broadcast carries each event id at most once (OpenADR's              *)
(* oadrDistributeEvent), so a payload is a sequence of event descriptors   *)
(* with pairwise distinct ids.                                             *)
(***************************************************************************)
EXTENDS Integers, Sequences, FiniteSets, TLC

(* ------------------------------ bounds -------------------------------- *)
MaxMod == 2
MaxTime == 2
MaxOffset == 1
MaxLevel == 2
MaxLate == 2

(* --------------------------- small universes --------------------------- *)
EventIds == {"e1", "e2"}
None == <<>>
Some(v) == <<v>>
NoneId == "None"
REQUEST_ID == "req1"
VEN_ID == "ven1"
VTN_ID == "vtn1"
CONTEXT == "mc1"

VARIABLES
    now,                   \* datetime.utcnow()
    handler,               \* the EventHandler's configuration (constructor arguments)
    db,                    \* DBHandler: the events table, id |-> row
    optouts,               \* EventHandler.optouts
    current_signal_level,  \* EventController.current_signal_level
    op,                    \* the operation that produced this state
    payload,               \* the broadcast handed to handle_payload (None when idle)
    reply,                 \* what handle_payload returned (None when idle)
    dbBefore,              \* the events table when the operation began
    arg,                   \* the event id given to optout_event (NoneId otherwise)
    selection,             \* what _calculate_current_event_status was given and
                           \* returned in the control pass (None otherwise)
    callback,              \* what _update_signal_level was given and which calls of
                           \* the signal-change callback it made (None otherwise)
    control                \* the EventController's flags and its control thread

vars == <<now, handler, db, optouts, current_signal_level, op, payload, reply, dbBefore, arg,
          selection, callback, control>>

(* ------------------------- schedule (utilities) ------------------------ *)
\* schedule.random_offset(dttm, start_before, start_after): the instants the
\* draw can produce; start_before is never given by the callers modelled here.
random_offset(dttm, start_after) ==
    IF start_after = None THEN {dttm} ELSE {dttm + r : r \in 0..start_after[1]}

(* ------------------------------ EventSchema ---------------------------- *)
\* from_xml drawing a start offset whether or not startafter is given.
from_xml_always_offset(x) ==
    { [ id |-> x.id,
        signals |-> x.signals,
        start |-> s,
        end |-> x.duration + x.dtstart,
        cancellation_offset |-> x.startafter,
        original_start |-> x.dtstart,
        group_ids |-> x.group_ids,
        resource_ids |-> x.resource_ids,
        party_ids |-> x.party_ids,
        ven_ids |-> x.ven_ids,
        market_context |-> x.market_context,
        mod_number |-> x.mod_number,
        status |-> x.status,
        test_event |-> x.test_event ] : s \in random_offset(x.dtstart, Some(MaxOffset)) }

\* get_mod_number raises on a descriptor without a modificationNumber
\* (int(None)).
parses(x) == "mod_number" \in DOMAIN x

\* EventSchema.from_xml: the events a descriptor can parse to (one per draw
\* of the start offset), none when parsing raises.
from_xml(x) ==
    IF ~parses(x) THEN {} ELSE
    { [ id |-> x.id,
        signals |-> x.signals,
        start |-> s,
        end |-> x.duration + x.dtstart,
        cancellation_offset |-> x.startafter,
        original_start |-> x.dtstart,
        group_ids |-> x.group_ids,
        resource_ids |-> x.resource_ids,
        party_ids |-> x.party_ids,
        ven_ids |-> x.ven_ids,
        market_context |-> x.market_context,
        mod_number |-> x.mod_number,
        status |-> x.status,
        test_event |-> x.test_event ] : s \in random_offset(x.dtstart, x.startafter) }

\* cancel setting the status and leaving the end as it was.
cancel_keeping_end(evt, t) == { [evt EXCEPT !.status = "cancelled"] }

\* EventSchema.cancel: the events it can leave (one per draw of the offset).
cancel(evt, t) ==
    { [evt EXCEPT !.end = e, !.status = "cancelled"] :
        e \in IF evt.status = "active"
              THEN (IF evt.cancellation_offset # None
                    THEN random_offset(t, evt.cancellation_offset)
                    ELSE {t})
              ELSE {t} }

(* ------------------------------- DBHandler ----------------------------- *)
\* DBHandler.accepted_params, restricted to the fields EventSchema has: the
\* columns add_event writes (the priority column is never given a value).
to_row(evt) ==
    [ id |-> evt.id,
      mod_number |-> evt.mod_number,
      start |-> evt.start,
      original_start |-> evt.original_start,
      end |-> evt.end,
      signals |-> evt.signals,
      cancellation_offset |-> evt.cancellation_offset,
      status |-> evt.status,
      test_event |-> evt.test_event ]

\* from_orm reading the column default instead of the stored mod_number.
from_orm_default_mod(row) ==
    [ id |-> row.id,
      signals |-> row.signals,
      start |-> row.start,
      end |-> row.end,
      cancellation_offset |-> row.cancellation_offset,
      original_start |-> row.original_start,
      group_ids |-> None,
      resource_ids |-> None,
      party_ids |-> None,
      ven_ids |-> None,
      market_context |-> None,
      mod_number |-> 0,
      status |-> row.status,
      test_event |-> row.test_event ]

\* EventSchema.from_orm: the target and market-context fields are not columns.
from_orm(row) ==
    [ id |-> row.id,
      signals |-> row.signals,
      start |-> row.start,
      end |-> row.end,
      cancellation_offset |-> row.cancellation_offset,
      original_start |-> row.original_start,
      group_ids |-> None,
      resource_ids |-> None,
      party_ids |-> None,
      ven_ids |-> None,
      market_context |-> None,
      mod_number |-> row.mod_number,
      status |-> row.status,
      test_event |-> row.test_event ]

\* DBHandler.remove_events
db_remove_events(d, ids) == [i \in (DOMAIN d) \ ids |-> d[i]]

\* DBHandler.add_event
db_add_event(d, evt) ==
    [i \in (DOMAIN d) \cup {evt.id} |-> IF i = evt.id THEN to_row(evt) ELSE d[i]]

\* DBHandler.update_event
db_update_event(d, evt) == db_add_event(db_remove_events(d, {evt.id}), evt)

\* DBHandler.get_event
db_get_event(d, event_id) ==
    IF event_id \in DOMAIN d THEN Some(from_orm(d[event_id])) ELSE None

\* sorted(..., key=start) over a query whose row order the engine chooses:
\* every listing of the rows in which start never decreases.
db_get_active_events(d) ==
    LET n == Cardinality(DOMAIN d)
    IN  { [k \in 1..n |-> from_orm(d[f[k]])] :
            f \in { g \in [1..n -> DOMAIN d] :
                      /\ \A a, b \in 1..n : a # b => g[a] # g[b]
                      /\ \A a, b \in 1..n : a < b => d[g[a]].start <= d[g[b]].start } }

(* ------------------------------ EventHandler --------------------------- *)
InSeq(v, s) == \E k \in 1..Len(s) : s[k] = v

\* check_target_info requiring every given criterion to match.
check_target_info_all(h, evt) ==
    IF evt.party_ids # <<>> \/ evt.group_ids # <<>>
         \/ evt.resource_ids # <<>> \/ evt.ven_ids # <<>>
    THEN /\ (evt.party_ids # <<>> => InSeq(h.party_id, evt.party_ids))
         /\ (evt.group_ids # <<>> => InSeq(h.group_id, evt.group_ids))
         /\ (evt.resource_ids # <<>> => InSeq(h.resource_id, evt.resource_ids))
         /\ (evt.ven_ids # <<>> => InSeq(h.ven_id, evt.ven_ids))
    ELSE TRUE

\* EventHandler.check_target_info
check_target_info(h, evt) ==
    IF evt.party_ids # <<>> \/ evt.group_ids # <<>>
         \/ evt.resource_ids # <<>> \/ evt.ven_ids # <<>>
    THEN \/ (evt.party_ids # <<>> /\ InSeq(h.party_id, evt.party_ids))
         \/ (evt.group_ids # <<>> /\ InSeq(h.group_id, evt.group_ids))
         \/ (evt.resource_ids # <<>> /\ InSeq(h.resource_id, evt.resource_ids))
         \/ (evt.ven_ids # <<>> /\ InSeq(h.ven_id, evt.ven_ids))
    ELSE TRUE

\* EventHandler.fill_event_target_info
fill_event_target_info(h, evt) ==
    [evt EXCEPT !.group_ids = IF h.group_id # NoneId THEN <<h.group_id>> ELSE None,
                !.resource_ids = IF h.resource_id # NoneId THEN <<h.resource_id>> ELSE None,
                !.party_ids = IF h.party_id # NoneId THEN <<h.party_id>> ELSE None,
                !.ven_ids = IF h.ven_id # NoneId THEN <<h.ven_id>> ELSE None]

RemoveAt(s, k) == [j \in 1..(Len(s) - 1) |-> IF j < k THEN s[j] ELSE s[j + 1]]

\* The loop of EventHandler.get_active_events: enumerate(active) with
\* active.pop(index) inside it, so the element after a popped one is not visited.
RECURSIVE pop_optouts(_, _, _, _)
pop_optouts(h, outs, active, k) ==
    IF k > Len(active) THEN active
    ELSE LET filled == [active EXCEPT ![k] = fill_event_target_info(h, active[k])]
         IN  IF filled[k].id \in outs
             THEN pop_optouts(h, outs, RemoveAt(filled, k), k + 1)
             ELSE pop_optouts(h, outs, filled, k + 1)

\* EventHandler.get_active_events: the lists it can return.
get_active_events(h, outs, d) ==
    { pop_optouts(h, outs, active, 1) : active \in db_get_active_events(d) }

\* mod_regression with the comparison turned round.
mod_regression_flipped(old, new) == old # None /\ old[1].mod_number < new.mod_number

\* The mod-number rule of handle_payload.
mod_regression(old, new) == old # None /\ old[1].mod_number > new.mod_number

\* The acceptance rules with the first rule that fires deciding the outcome.
decide_first_rule(h, outs, old, new) ==
    IF mod_regression(old, new) THEN <<"optOut", "403">>
    ELSE IF ~check_target_info(h, new) THEN <<"optOut", "403">>
    ELSE IF new.id \in outs THEN <<"optOut", "200">>
    ELSE IF new.signals = <<>> THEN <<"optOut", "403">>
    ELSE IF h.market_contexts # {} /\ new.market_context \notin h.market_contexts
         THEN <<"optOut", "405">>
    ELSE <<"optIn", "200">>

\* The acceptance rules of handle_payload, in the order of the code: each rule
\* that fires overwrites the outcome of the ones before it.
decide(h, outs, old, new) ==
    LET r0 == <<"optIn", "200">>
        r1 == IF mod_regression(old, new) THEN <<"optOut", "403">> ELSE r0
        r2 == IF ~check_target_info(h, new) THEN <<"optOut", "403">> ELSE r1
        r3 == IF new.id \in outs THEN <<"optOut", "200">> ELSE r2
        r4 == IF new.signals = <<>> THEN <<"optOut", "403">> ELSE r3
        r5 == IF h.market_contexts # {} /\ new.market_context \notin h.market_contexts
              THEN <<"optOut", "405">> ELSE r4
    IN  r5

\* persist storing a new event as it arrived (no cancel() on a cancelled one).
persist_new_as_received(d, old, new, opt, t) ==
    IF opt # "optIn" THEN {d}
    ELSE IF old # None
         THEN IF old[1].mod_number < new.mod_number
              THEN IF new.status = "cancelled" /\ new.status # old[1].status
                   THEN {db_update_event(d, c) : c \in cancel(new, t)}
                   ELSE {db_update_event(d, new)}
              ELSE {d}
         ELSE {db_add_event(d, new)}

\* persist writing whatever the outcome of the rules (the test of opt dropped).
persist_ignoring_opt(d, old, new, opt, t) ==
    IF old # None
    THEN IF old[1].mod_number < new.mod_number
         THEN IF new.status = "cancelled" /\ new.status # old[1].status
              THEN {db_update_event(d, c) : c \in cancel(new, t)}
              ELSE {db_update_event(d, new)}
         ELSE {d}
    ELSE IF new.status = "cancelled"
         THEN {db_add_event(d, c) : c \in cancel(new, t)}
         ELSE {db_add_event(d, new)}

\* persist replacing the stored event also at an equal mod_number.
persist_or_equal(d, old, new, opt, t) ==
    IF opt # "optIn" THEN {d}
    ELSE IF old # None
         THEN IF old[1].mod_number <= new.mod_number
              THEN IF new.status = "cancelled" /\ new.status # old[1].status
                   THEN {db_update_event(d, c) : c \in cancel(new, t)}
                   ELSE {db_update_event(d, new)}
              ELSE {d}
         ELSE IF new.status = "cancelled"
              THEN {db_add_event(d, c) : c \in cancel(new, t)}
              ELSE {db_add_event(d, new)}

\* The persistence step of handle_payload for one event: the tables it can leave.
persist(d, old, new, opt, t) ==
    IF opt # "optIn" THEN {d}
    ELSE IF old # None
         THEN IF old[1].mod_number < new.mod_number
              THEN IF new.status = "cancelled" /\ new.status # old[1].status
                   THEN {db_update_event(d, c) : c \in cancel(new, t)}
                   ELSE {db_update_event(d, new)}
              ELSE {d}
         ELSE IF new.status = "cancelled"
              THEN {db_add_event(d, c) : c \in cancel(new, t)}
              ELSE {db_add_event(d, new)}

\* handle_event answering every event (the test of oadrResponseRequired dropped).
handle_event_answering_all(h, outs, t, st, x, requestID) ==
    UNION { LET old == db_get_event(st.db, new.id)
                r == decide(h, outs, old, new)
            IN  { [ db |-> d2,
                    reply_events |-> Append(st.reply_events,
                                            [ id |-> new.id, mod_number |-> new.mod_number,
                                              requestID |-> requestID,
                                              opt |-> r[1], status |-> r[2] ]),
                    all_events |-> st.all_events \cup {new.id},
                    raised |-> FALSE ] :
                    d2 \in persist(st.db, old, new, r[1], t) }
          : new \in from_xml(x) }

\* One pass of the loop over oadr:oadrEvent: st = [db, reply_events, all_events].
handle_event(h, outs, t, st, x, requestID) ==
    UNION { LET old == db_get_event(st.db, new.id)
                r == decide(h, outs, old, new)
            IN  { [ db |-> d2,
                    reply_events |-> IF x.response_required = "always"
                                     THEN Append(st.reply_events,
                                                 [ id |-> new.id, mod_number |-> new.mod_number,
                                                   requestID |-> requestID,
                                                   opt |-> r[1], status |-> r[2] ])
                                     ELSE st.reply_events,
                    all_events |-> st.all_events \cup {new.id},
                    raised |-> FALSE ] :
                    d2 \in persist(st.db, old, new, r[1], t) }
          : new \in from_xml(x) }

RECURSIVE handle_events(_, _, _, _, _, _)
handle_events(h, outs, t, st, xs, requestID) ==
    IF xs = <<>> THEN {st}
    ELSE IF from_xml(Head(xs)) = {} THEN {[st EXCEPT !.raised = TRUE]}
    ELSE UNION { handle_events(h, outs, t, st2, Tail(xs), requestID) :
                   st2 \in handle_event(h, outs, t, st, Head(xs), requestID) }

\* The implicit-cancellation loop of handle_payload over one returned list.
RECURSIVE cancel_missing(_, _, _, _)
cancel_missing(d, t, active, all_events) ==
    IF active = <<>> THEN {d}
    ELSE IF Head(active).id \notin all_events
         THEN UNION { cancel_missing(db_update_event(d, c), t, Tail(active), all_events) :
                        c \in cancel(Head(active), t) }
         ELSE cancel_missing(d, t, Tail(active), all_events)

\* build_created_payload echoing the broadcast's requestID at the top level.
build_created_payload_echoing(h, events) ==
    [ responseCode |-> "200", requestID |-> events[1].requestID,
      eventResponses |-> events, venID |-> h.ven_id ]

\* EventHandler.build_created_payload
build_created_payload(h, events) ==
    [ responseCode |-> "200", requestID |-> "", eventResponses |-> events, venID |-> h.ven_id ]

\* EventHandler.build_error_response
build_error_response(h, request_id, code) ==
    [ responseCode |-> code, requestID |-> "", eventResponses |-> <<>>, venID |-> h.ven_id ]

\* unknown_vtn with the membership test inverted.
unknown_vtn_inverted(h, vtnID) == h.vtn_ids # {} /\ vtnID \in h.vtn_ids

\* The VTN gate of handle_payload.
unknown_vtn(h, vtnID) == h.vtn_ids # {} /\ vtnID \notin h.vtn_ids

\* EventHandler.handle_payload: the pairs [db, reply] it can end with; when
\* from_xml raises, the exception leaves handle_payload and the transport,
\* which catches it, has no reply.
handle_payload(h, outs, d, t, p) ==
    IF unknown_vtn(h, p.vtnID)
    THEN { [ db |-> d, reply |-> Some(build_error_response(h, p.requestID, "400")) ] }
    ELSE UNION { IF st.raised THEN { [ db |-> st.db, reply |-> None ] }
                 ELSE
                 UNION { { [ db |-> d3,
                             reply |-> IF st.reply_events # <<>>
                                       THEN Some(build_created_payload(h, st.reply_events))
                                       ELSE None ] :
                           d3 \in cancel_missing(st.db, t, active, st.all_events) }
                       : active \in get_active_events(h, outs, st.db) }
               : st \in handle_events(h, outs, t,
                                      [db |-> d, reply_events |-> <<>>, all_events |-> {}, raised |-> FALSE],
                                      p.events, p.requestID) }

\* A str compared with an EventSchema (the test of optout_event, "e_id not in
\* self.db.get_active_events()", compares the id with the events themselves).
str_eq_event(e_id, evt) == FALSE

\* EventHandler.optout_event: the opt-out set it leaves.
optout_event(outs, d, e_id) ==
    IF \A active \in db_get_active_events(d) :
           ~ \E k \in 1..Len(active) : str_eq_event(e_id, active[k])
    THEN outs
    ELSE outs \cup {e_id}

\* EventHandler.remove_events
remove_events(d, outs, ids) == [db |-> db_remove_events(d, ids), optouts |-> outs \ ids]

(* ----------------------------- EventController ------------------------- *)
\* EventSchema.get_current_interval: the current interval, if any.
RECURSIVE find_interval(_, _, _)
find_interval(signals, previous_signal_end, t) ==
    IF signals = <<>> THEN None
    ELSE LET current_signal_end == previous_signal_end + Head(signals).duration
         IN  IF previous_signal_end < t /\ t <= current_signal_end
             THEN Some(Head(signals))
             ELSE find_interval(Tail(signals), current_signal_end, t)

get_current_interval(evt, t) ==
    IF evt.start > t /\ t < evt.end THEN None
    ELSE find_interval(evt.signals, evt.start, t)

\* status_step expiring a cancelled event as soon as now reaches its end.
status_step_purging_at_end(acc, evt, t) ==
    IF evt.status = "cancelled" /\ t >= evt.end
    THEN [acc EXCEPT !.remove_events = Append(@, evt.id)]
    ELSE IF evt.signals = <<>> THEN acc
    ELSE LET current_interval == get_current_interval(evt, t)
         IN  IF current_interval = None
             THEN IF evt.end < t
                  THEN [acc EXCEPT !.remove_events = Append(@, evt.id)]
                  ELSE acc
             ELSE IF evt.test_event THEN acc
             ELSE IF current_interval[1].level > acc.level \/ acc.current_event = None
                  THEN IF acc.current_event = None
                       THEN [acc EXCEPT !.level = current_interval[1].level,
                                        !.current_event = Some(evt.id)]
                       ELSE acc
                  ELSE acc

\* status_step replacing the leading event by any candidate of a higher level.
status_step_highest_level(acc, evt, t) ==
    IF evt.status = "cancelled" /\ t > evt.end
    THEN [acc EXCEPT !.remove_events = Append(@, evt.id)]
    ELSE IF evt.signals = <<>> THEN acc
    ELSE LET current_interval == get_current_interval(evt, t)
         IN  IF current_interval = None
             THEN IF evt.end < t
                  THEN [acc EXCEPT !.remove_events = Append(@, evt.id)]
                  ELSE acc
             ELSE IF evt.test_event THEN acc
             ELSE IF current_interval[1].level > acc.level \/ acc.current_event = None
                  THEN [acc EXCEPT !.level = current_interval[1].level,
                                   !.current_event = Some(evt.id)]
                  ELSE acc

\* status_step letting a test event compete (the test of test_event dropped).
status_step_counting_test(acc, evt, t) ==
    IF evt.status = "cancelled" /\ t > evt.end
    THEN [acc EXCEPT !.remove_events = Append(@, evt.id)]
    ELSE IF evt.signals = <<>> THEN acc
    ELSE LET current_interval == get_current_interval(evt, t)
         IN  IF current_interval = None
             THEN IF evt.end < t
                  THEN [acc EXCEPT !.remove_events = Append(@, evt.id)]
                  ELSE acc
             ELSE IF current_interval[1].level > acc.level \/ acc.current_event = None
                  THEN IF acc.current_event = None
                       THEN [acc EXCEPT !.level = current_interval[1].level,
                                        !.current_event = Some(evt.id)]
                       ELSE acc
                  ELSE acc

\* The body of the loop of _calculate_current_event_status for one event:
\* acc = [level, current_event, remove_events].
status_step(acc, evt, t) ==
    IF evt.status = "cancelled" /\ t > evt.end
    THEN [acc EXCEPT !.remove_events = Append(@, evt.id)]
    ELSE IF evt.signals = <<>> THEN acc
    ELSE LET current_interval == get_current_interval(evt, t)
         IN  IF current_interval = None
             THEN IF evt.end < t
                  THEN [acc EXCEPT !.remove_events = Append(@, evt.id)]
                  ELSE acc
             ELSE IF evt.test_event THEN acc
             ELSE IF current_interval[1].level > acc.level \/ acc.current_event = None
                  THEN IF acc.current_event = None
                       THEN [acc EXCEPT !.level = current_interval[1].level,
                                        !.current_event = Some(evt.id)]
                       \* evt.priority: EventSchema has no such field; the
                       \* AttributeError is caught and the event is skipped
                       ELSE acc
                  ELSE acc

RECURSIVE status_loop(_, _, _)
status_loop(acc, events, t) ==
    IF events = <<>> THEN acc
    ELSE status_loop(status_step(acc, Head(events), t), Tail(events), t)

\* EventController._calculate_current_event_status
calculate_current_event_status(events, t) ==
    status_loop([level |-> 0, current_event |-> None, remove_events |-> <<>>], events, t)

SeqToSet(s) == {s[k] : k \in 1..Len(s)}

\* _update_control asking for a removal whatever the list.
remove_expired_unconditional(d, outs, ids) ==
    [ removed |-> remove_events(d, outs, SeqToSet(ids)), calls |-> <<ids>> ]

\* _update_control's removal: the store and opt-outs it leaves and the calls
\* of remove_events it makes.
remove_expired(d, outs, ids) ==
    IF ids # <<>>
    THEN [ removed |-> remove_events(d, outs, SeqToSet(ids)), calls |-> <<ids>> ]
    ELSE [ removed |-> [db |-> d, optouts |-> outs], calls |-> <<>> ]

\* get_current_signal_level removing what its selection found expired.
get_current_signal_level_purging(h, outs, d, t) ==
    { LET r == calculate_current_event_status(events, t)
      IN  [ events |-> events, signal_level |-> r.level, event_id |-> r.current_event,
            expired_events |-> r.remove_events,
            db |-> remove_expired(d, outs, r.remove_events).removed.db ] :
        events \in get_active_events(h, outs, d) }

\* EventController.get_current_signal_level: what it can return (signal_level,
\* event_id), with the list it read, the expired events it drops and the store
\* it leaves.
get_current_signal_level(h, outs, d, t) ==
    { LET r == calculate_current_event_status(events, t)
      IN  [ events |-> events, signal_level |-> r.level, event_id |-> r.current_event,
            expired_events |-> r.remove_events, db |-> d ] :
        events \in get_active_events(h, outs, d) }

\* handle_payload's locals while no call is in progress.
NoIngest == [pc |-> "idle", all_events |-> {}, reply_events |-> <<>>, active |-> <<>>]

\* _update_signal_level letting the callback's exception out before the level
\* is set.
update_signal_level_propagating(cur, signal_level, raises) ==
    IF signal_level = cur
    THEN [old |-> cur, given |-> signal_level, raises |-> raises,
          calls |-> <<>>, level |-> cur, changed |-> FALSE, escaped |-> FALSE]
    ELSE [old |-> cur, given |-> signal_level, raises |-> raises,
          calls |-> << <<cur, signal_level>> >>,
          level |-> IF raises THEN cur ELSE signal_level, changed |-> ~raises,
          escaped |-> raises]

\* EventController._update_signal_level: the calls of the callback it makes,
\* the level it leaves, what it returns (changed) and whether an exception
\* leaves it (escaped); an exception of the callback (raises) is logged and
\* absorbed.
update_signal_level(cur, signal_level, raises) ==
    IF signal_level = cur
    THEN [old |-> cur, given |-> signal_level, raises |-> raises,
          calls |-> <<>>, level |-> cur, changed |-> FALSE, escaped |-> FALSE]
    ELSE [old |-> cur, given |-> signal_level, raises |-> raises,
          calls |-> << <<cur, signal_level>> >>, level |-> signal_level, changed |-> TRUE,
          escaped |-> FALSE]

\* EventController.__init__: the flags and the control thread after
\* construction (thread is "none" when start_thread is false).
ControlInit(thread) ==
    [ thread |-> thread, exit |-> FALSE, signal |-> FALSE, pc |-> "test",
      events |-> <<>>, level |-> 0, failed |-> FALSE, late |-> 0, raised |-> FALSE,
      nudged |-> FALSE, ingest |-> NoIngest ]

\* The loop condition of _control_event_loop, never looking at the exit flag.
loop_condition_ignoring_exit(c) == TRUE

\* The loop condition of _control_event_loop.
loop_condition(c) == ~c.exit

\* The end of a pass clearing the loop's signal before the wait.
pass_done_clearing(c) ==
    [c EXCEPT !.pc = "wait", !.events = <<>>, !.level = 0, !.signal = FALSE,
              !.late = IF c.exit /\ c.late < MaxLate THEN c.late + 1 ELSE c.late]

\* The end of a pass, which goes on to the wait; the pass is counted when it
\* completes although the exit flag is already set.
pass_done(c) ==
    [c EXCEPT !.pc = "wait", !.events = <<>>, !.level = 0,
              !.late = IF c.exit /\ c.late < MaxLate THEN c.late + 1 ELSE c.late]

\* An exception of a pass ending the thread.
pass_failed_fatal(c) ==
    [c EXCEPT !.thread = "exited", !.pc = "done", !.events = <<>>, !.level = 0, !.failed = TRUE]

\* The except clause of _control_event_loop: the exception of a pass is
\* logged and the loop goes on to its wait.
pass_failed(c) == [pass_done(c) EXCEPT !.failed = TRUE]

\* EventController.events_updated (nudged: the call has not yet been followed
\* by a read of the active set)
events_updated(c) == [c EXCEPT !.signal = TRUE, !.nudged = TRUE]

(* ------------------------------- the inputs ---------------------------- *)
Statuses == {"near", "active", "cancelled"}
Flaws == {"none", "target", "signal", "context"}
Interval == [index |-> 0, duration |-> 1, level |-> 1]

\* An oadr:oadrEvent as the VTN writes it.
Xml(id, m, s, sa, flaw, rr) ==
    [ id |-> id, mod_number |-> m, status |-> s,
      dtstart |-> 0, duration |-> 1, startafter |-> sa,
      signals |-> IF flaw = "signal" THEN <<>> ELSE <<Interval>>,
      group_ids |-> <<>>, resource_ids |-> <<>>, party_ids |-> <<>>,
      ven_ids |-> IF flaw = "target" THEN <<"ven2">> ELSE <<>>,
      market_context |-> IF flaw = "context" THEN "mc2" ELSE CONTEXT,
      test_event |-> FALSE,
      response_required |-> rr ]

\* The versions of e1 that differ in what is stored.
Versions(id) ==
    { Xml(id, m, s, sa, "none", "always") :
        m \in 0..MaxMod, s \in Statuses, sa \in {None, Some(MaxOffset)} }

\* The versions of e1 that differ in how they are answered.
Answers(id) ==
    { Xml(id, m, "active", None, f, "always") : m \in 0..MaxMod, f \in Flaws }
    \cup { Xml(id, m, "active", None, "none", "never") : m \in 0..MaxMod }

Companions(id) ==
    { Xml(id, 0, "active", Some(MaxOffset), "none", "always"),
      Xml(id, 0, "active", None, "context", "always") }

EventLists ==
    {<<>>}
    \cup { <<x>> : x \in Versions("e1") \cup Answers("e1") \cup Companions("e2") }
    \cup { <<x, y>> : x \in Answers("e1"), y \in Companions("e2") }
    \cup { <<y, x>> : x \in Answers("e1"), y \in Companions("e2") }

Payloads ==
    { [requestID |-> REQUEST_ID, vtnID |-> VTN_ID, events |-> es] : es \in EventLists }
    \cup { [requestID |-> REQUEST_ID, vtnID |-> "vtn2", events |-> <<x>>] :
             x \in { Xml(i, m, "active", None, "none", "always") :
                       i \in EventIds, m \in {0, MaxMod} } }

Handlers ==
    { [ ven_id |-> VEN_ID, vtn_ids |-> v, market_contexts |-> c,
        group_id |-> NoneId, resource_id |-> NoneId, party_id |-> NoneId ] :
        v \in {{VTN_ID}}, c \in {{CONTEXT}} }

(* ------------------------------ the machine ---------------------------- *)
Init ==
    /\ now = 0
    /\ handler \in Handlers
    /\ db = <<>>
    /\ optouts = {}
    /\ current_signal_level = 0
    /\ op = "idle"
    /\ payload = None
    /\ reply = None
    /\ dbBefore = <<>>
    /\ arg = NoneId
    /\ selection = None
    /\ callback = None
    /\ control = ControlInit("running")

\* The transport hands a broadcast to handle_payload.
HandlePayloadFrom(broadcasts) ==
    /\ op = "idle"
    /\ \E p \in broadcasts : \E out \in handle_payload(handler, optouts, db, now, p) :
         /\ db' = out.db
         /\ reply' = out.reply
         /\ payload' = Some(p)
    /\ dbBefore' = db
    /\ op' = "handle_payload"
    /\ UNCHANGED <<now, handler, optouts, current_signal_level, arg, selection, callback,
                   control>>

HandlePayload == HandlePayloadFrom(Payloads)

\* The operator opts out of an event.
OptoutEvent ==
    /\ op = "idle"
    /\ \E e \in EventIds :
         /\ optouts' = optout_event(optouts, db, e)
         /\ arg' = e
    /\ dbBefore' = db
    /\ op' = "optout_event"
    /\ UNCHANGED <<now, handler, db, current_signal_level, payload, reply, selection,
                   callback, control>>

\* One pass of _control_event_loop: _update_control, then _update_signal_level
\* unless _update_control raised (update_active_status is no method of the
\* handler, so it raises whenever there is a leading event).
ControlPass ==
    /\ op = "idle"
    /\ \E events \in get_active_events(handler, optouts, db) : \E raises \in BOOLEAN :
         LET r == calculate_current_event_status(events, now)
             removal == remove_expired(db, optouts, r.remove_events)
             removed == removal.removed
             u == update_signal_level(current_signal_level, r.level, raises)
         IN  /\ db' = removed.db
             /\ optouts' = removed.optouts
             /\ current_signal_level' =
                  IF r.current_event # None THEN current_signal_level ELSE u.level
             /\ callback' = IF r.current_event # None THEN None ELSE Some(u)
             /\ selection' = Some([ events |-> events, level |-> r.level,
                                    current_event |-> r.current_event,
                                    remove_events |-> r.remove_events,
                                    removals |-> removal.calls ])
    /\ control' = [control EXCEPT !.signal = FALSE, !.nudged = FALSE]
    /\ dbBefore' = db
    /\ op' = "control"
    /\ UNCHANGED <<now, handler, payload, reply, arg>>

\* The operation's result is taken by its caller; the poll transport, given
\* a reply, calls events_updated before it sends the reply.
Return ==
    /\ op # "idle"
    /\ control' = IF op \in {"handle_payload", "redelivery"} /\ reply # None
                  THEN events_updated(control) ELSE control
    /\ op' = "idle"
    /\ payload' = None
    /\ reply' = None
    /\ dbBefore' = <<>>
    /\ arg' = NoneId
    /\ selection' = None
    /\ callback' = None
    /\ UNCHANGED <<now, handler, db, optouts, current_signal_level>>

\* Wall-clock time passes.
TickWhen(ops) ==
    /\ op \in ops
    /\ now < MaxTime
    /\ now' = now + 1
    /\ UNCHANGED <<handler, db, optouts, current_signal_level, op, payload, reply, dbBefore, arg,
                   selection, callback, control>>

Tick == TickWhen({"idle"})

Next == HandlePayload \/ OptoutEvent \/ ControlPass \/ Return \/ Tick

Spec == Init /\ [][Next]_vars

(* --------------------- the same broadcast, delivered again ------------- *)
\* Broadcasts of at most one event, none with a startafter tolerance.
RedeliveryPayloads ==
    { [requestID |-> REQUEST_ID, vtnID |-> VTN_ID, events |-> es] :
        es \in {<<>>} \cup { <<Xml(i, m, s, None, "none", "always")>> :
                               i \in EventIds, m \in 0..MaxMod, s \in Statuses } }

HandleFirst == HandlePayloadFrom(RedeliveryPayloads)

\* The VTN delivers the broadcast it delivered last once more.
Redeliver ==
    /\ op = "handle_payload"
    /\ \E out \in handle_payload(handler, optouts, db, now, payload[1]) :
         /\ db' = out.db
         /\ reply' = out.reply
    /\ dbBefore' = db
    /\ op' = "redelivery"
    /\ UNCHANGED <<now, handler, optouts, current_signal_level, payload, arg, selection,
                   callback, control>>

\* Time passes between the two deliveries.
TickBetween == TickWhen({"idle", "handle_payload"})

NextRedeliver == HandleFirst \/ Redeliver \/ Return \/ TickBetween

SpecRedeliver == Init /\ [][NextRedeliver]_vars

(* --------------------- selection, on its own inputs -------------------- *)
\* AdrEvent.duration: the sum of the durations of a list of intervals.
RECURSIVE TotalDuration(_)
TotalDuration(signals) ==
    IF signals = <<>> THEN 0 ELSE Head(signals).duration + TotalDuration(Tail(signals))

IntervalOf(i, d, l) == [index |-> i, duration |-> d, level |-> l]

\* An oadr:oadrEvent with its priority, test flag and intervals (numbered in
\* document order); the active period lasts as long as the intervals.
XmlSelect(id, dt, sigs, s, sa, test, prio, mc) ==
    [ id |-> id, mod_number |-> 0, status |-> s, priority |-> prio,
      dtstart |-> dt, duration |-> TotalDuration(sigs), startafter |-> sa,
      signals |-> sigs,
      group_ids |-> <<>>, resource_ids |-> <<>>, party_ids |-> <<>>, ven_ids |-> <<>>,
      market_context |-> mc,
      test_event |-> test,
      response_required |-> "always" ]

SelectFirst ==
    { XmlSelect("e1", dt, sigs, s, sa, test, 1, CONTEXT) :
        dt \in {0, 1},
        sigs \in { <<IntervalOf(0, 0, 1)>>, <<IntervalOf(0, 1, 1)>>, <<IntervalOf(0, 2, 1)>>,
                   <<IntervalOf(0, 1, 1), IntervalOf(1, 2, 2)>> },
        s \in {"active", "cancelled"},
        sa \in {None, Some(MaxOffset), Some(MaxOffset + 2)},
        test \in BOOLEAN }

SelectSecond ==
    { XmlSelect("e2", dt, <<IntervalOf(0, 2, 2)>>, "active", None, test, prio, "mc2") :
        dt \in {0, 1}, test \in BOOLEAN, prio \in {0, 1, 2} }

SelectPayloads ==
    { [requestID |-> REQUEST_ID, vtnID |-> VTN_ID, events |-> es] :
        es \in { <<x>> : x \in SelectFirst \cup SelectSecond }
               \cup { <<x, y>> : x \in SelectFirst, y \in SelectSecond } }

\* The broadcast that carries no event.
EmptyPayloads == { [requestID |-> REQUEST_ID, vtnID |-> VTN_ID, events |-> <<>>] }

SelectHandlers ==
    { [ ven_id |-> VEN_ID, vtn_ids |-> {VTN_ID}, market_contexts |-> {CONTEXT, "mc2"},
        group_id |-> NoneId, resource_id |-> NoneId, party_id |-> NoneId ] }

InitSelect ==
    /\ now = 0
    /\ handler \in SelectHandlers
    /\ db = <<>>
    /\ optouts = {}
    /\ current_signal_level = 0
    /\ op = "idle"
    /\ payload = None
    /\ reply = None
    /\ dbBefore = <<>>
    /\ arg = NoneId
    /\ selection = None
    /\ callback = None
    /\ control = ControlInit("running")

\* The first broadcast the VEN receives.
IngestFirst == db = <<>> /\ now = 0 /\ HandlePayloadFrom(SelectPayloads)

\* A later broadcast that omits what is stored.
IngestEmpty == db # <<>> /\ HandlePayloadFrom(EmptyPayloads)

NextSelect == IngestFirst \/ IngestEmpty \/ ControlPass \/ Return \/ Tick

SpecSelect == InitSelect /\ [][NextSelect]_vars

(* ------------------- target matching, on its own inputs ---------------- *)
XmlTargeted(pids, gids, rids, vids, mc) ==
    [ id |-> "e1", mod_number |-> 0, status |-> "active",
      dtstart |-> 0, duration |-> 1, startafter |-> None,
      signals |-> <<Interval>>,
      group_ids |-> gids, resource_ids |-> rids, party_ids |-> pids, ven_ids |-> vids,
      market_context |-> mc,
      test_event |-> FALSE,
      response_required |-> "always" ]

TargetPayloads ==
    { [ requestID |-> REQUEST_ID, vtnID |-> VTN_ID,
        events |-> <<XmlTargeted(pids, gids, rids, vids, mc)>> ] :
        pids \in {<<>>, <<"p1">>, <<"p2">>},
        gids \in {<<>>, <<"g1">>, <<"g2">>},
        rids \in {<<>>, <<"r1">>, <<"r2", "r1">>},
        vids \in {<<>>, <<VEN_ID>>, <<"ven2">>},
        mc \in {CONTEXT, "mc2"} }

TargetHandlers ==
    { [ ven_id |-> VEN_ID, vtn_ids |-> {}, market_contexts |-> {CONTEXT},
        group_id |-> g, resource_id |-> r, party_id |-> q ] :
        g \in {NoneId, "g1"}, r \in {NoneId, "r1"}, q \in {NoneId, "p1"} }

InitTarget ==
    /\ now = 0
    /\ handler \in TargetHandlers
    /\ db = <<>>
    /\ optouts = {}
    /\ current_signal_level = 0
    /\ op = "idle"
    /\ payload = None
    /\ reply = None
    /\ dbBefore = <<>>
    /\ arg = NoneId
    /\ selection = None
    /\ callback = None
    /\ control = ControlInit("running")

HandleTargeted == HandlePayloadFrom(TargetPayloads)

NextTarget == HandleTargeted \/ Return

SpecTarget == InitTarget /\ [][NextTarget]_vars

(* ------------------- broadcasts with a malformed event ----------------- *)
\* An oadr:oadrEvent without a modificationNumber.
XmlMalformed(id) ==
    [ id |-> id, status |-> "active",
      dtstart |-> 0, duration |-> 1, startafter |-> None,
      signals |-> <<Interval>>,
      group_ids |-> <<>>, resource_ids |-> <<>>, party_ids |-> <<>>, ven_ids |-> <<>>,
      market_context |-> CONTEXT,
      test_event |-> FALSE,
      response_required |-> "always" ]

\* Broadcasts of one or two events, one of which may be malformed.
MalformedPayloads ==
    { [requestID |-> REQUEST_ID, vtnID |-> VTN_ID, events |-> es] :
        es \in UNION { { <<Xml(i, m, "active", None, "none", "always")>>,
                         <<XmlMalformed(j), Xml(i, m, "active", None, "none", "always")>>,
                         <<Xml(i, m, "active", None, "none", "always"), XmlMalformed(j)>>,
                         <<XmlMalformed(j)>> } :
                       i \in EventIds, j \in EventIds, m \in 0..MaxMod } }

HandleMalformed == HandlePayloadFrom(MalformedPayloads)

NextMalformed == HandleMalformed \/ Return \/ Tick

SpecMalformed == Init /\ [][NextMalformed]_vars

(* ---------------- the acceptance rules, on their inputs ---------------- *)
\* A version of e1 with any combination of the flaws the rules look for.
XmlRules(m, target, signal, context) ==
    [ id |-> "e1", mod_number |-> m, status |-> "active",
      dtstart |-> 0, duration |-> 1, startafter |-> None,
      signals |-> IF signal THEN <<>> ELSE <<Interval>>,
      group_ids |-> <<>>, resource_ids |-> <<>>, party_ids |-> <<>>,
      ven_ids |-> IF target THEN <<"ven2">> ELSE <<>>,
      market_context |-> IF context THEN "mc2" ELSE CONTEXT,
      test_event |-> FALSE,
      response_required |-> "always" ]

RulesPayloads ==
    { [ requestID |-> REQUEST_ID, vtnID |-> VTN_ID,
        events |-> <<XmlRules(m, target, signal, context)>> ] :
        m \in 0..MaxMod, target \in BOOLEAN, signal \in BOOLEAN, context \in BOOLEAN }

\* Handlers with and without a list of market contexts.
RulesHandlers ==
    { [ ven_id |-> VEN_ID, vtn_ids |-> {VTN_ID}, market_contexts |-> c,
        group_id |-> NoneId, resource_id |-> NoneId, party_id |-> NoneId ] :
        c \in {{CONTEXT}, {}} }

\* The stores the rules are applied to: empty, or holding e1 at mod_number 1.
RulesStores ==
    {<<>>} \cup { db_add_event(<<>>, evt) :
                    evt \in from_xml(XmlRules(1, FALSE, FALSE, FALSE)) }

\* The rules' inputs: a store, and the opt-out set with or without e1.
InitRules ==
    /\ now = 0
    /\ handler \in RulesHandlers
    /\ db \in RulesStores
    /\ optouts \in SUBSET {"e1"}
    /\ current_signal_level = 0
    /\ op = "idle"
    /\ payload = None
    /\ reply = None
    /\ dbBefore = <<>>
    /\ arg = NoneId
    /\ selection = None
    /\ callback = None
    /\ control = ControlInit("running")

HandleRules == HandlePayloadFrom(RulesPayloads)

NextRules == HandleRules \/ Return

SpecRules == InitRules /\ [][NextRules]_vars

(* ------------------ the signal level, set directly --------------------- *)
\* The levels _update_signal_level is given.
SignalLevels == 0..MaxLevel

\* _update_signal_level is called with a level.
UpdateSignalLevel ==
    /\ op = "idle"
    /\ \E signal_level \in SignalLevels : \E raises \in BOOLEAN :
         LET u == update_signal_level(current_signal_level, signal_level, raises)
         IN  /\ current_signal_level' = u.level
             /\ callback' = Some(u)
    /\ op' = "update_signal_level"
    /\ UNCHANGED <<now, handler, db, optouts, payload, reply, dbBefore, arg, selection, control>>

\* An observer asks for the current signal level.
GetCurrentSignalLevel ==
    /\ op = "idle"
    /\ \E q \in get_current_signal_level(handler, optouts, db, now) :
         /\ db' = q.db
         /\ selection' = Some([ events |-> q.events, level |-> q.signal_level,
                                current_event |-> q.event_id,
                                remove_events |-> q.expired_events, removals |-> <<>> ])
    /\ dbBefore' = db
    /\ op' = "get_current_signal_level"
    /\ UNCHANGED <<now, handler, optouts, current_signal_level, payload, reply, arg, callback,
                   control>>

NextSignal ==
    IngestFirst \/ IngestEmpty \/ ControlPass \/ UpdateSignalLevel \/ GetCurrentSignalLevel
        \/ Return \/ Tick

SpecSignal == InitSelect /\ [][NextSignal]_vars

(* ---------------- the control thread, step by step --------------------- *)
\* The broadcasts of the loop's scenario: none or one version of e1.
LoopPayloads ==
    { [requestID |-> REQUEST_ID, vtnID |-> VTN_ID, events |-> es] :
        es \in {<<>>} \cup { <<Xml("e1", m, s, None, "none", rr)>> :
                               m \in {0, 1}, s \in {"active", "cancelled"},
                               rr \in {"always", "never"} } }

\* A controller with or without its control thread.
InitLoop ==
    /\ now = 0
    /\ handler \in Handlers
    /\ db = <<>>
    /\ optouts = {}
    /\ current_signal_level = 0
    /\ op = "idle"
    /\ payload = None
    /\ reply = None
    /\ dbBefore = <<>>
    /\ arg = NoneId
    /\ selection = None
    /\ callback = None
    /\ control \in {ControlInit(t) : t \in {"none", "running"}}

\* while not self._exit.is_set()
LoopTest ==
    /\ control.thread = "running"
    /\ control.pc = "test"
    /\ control' = IF loop_condition(control)
                  THEN [control EXCEPT !.pc = "read", !.failed = FALSE]
                  ELSE [control EXCEPT !.pc = "done", !.thread = "exited", !.failed = FALSE]
    /\ UNCHANGED <<now, handler, db, optouts, current_signal_level, op, payload, reply, dbBefore,
                   arg, selection, callback>>

\* events = self.event_handler.get_active_events(); the store may fail.
LoopRead ==
    /\ control.thread = "running"
    /\ control.pc = "read"
    /\ \/ control' = [pass_failed(control) EXCEPT !.nudged = FALSE]
       \/ \E events \in get_active_events(handler, optouts, db) :
            control' = [control EXCEPT !.pc = "update", !.events = events, !.nudged = FALSE]
    /\ UNCHANGED <<now, handler, db, optouts, current_signal_level, op, payload, reply, dbBefore,
                   arg, selection, callback>>

\* new_signal_level = self._update_control(events): the selection, the
\* removal (the store may fail) and update_active_status, which raises.
LoopUpdate ==
    /\ control.thread = "running"
    /\ control.pc = "update"
    /\ LET r == calculate_current_event_status(control.events, now)
           removal == remove_expired(db, optouts, r.remove_events)
       IN  \/ /\ removal.calls # <<>>
              /\ control' = pass_failed(control)
              /\ UNCHANGED <<db, optouts>>
           \/ /\ db' = removal.removed.db
              /\ optouts' = removal.removed.optouts
              /\ control' = IF r.current_event # None
                            THEN pass_failed(control)
                            ELSE [control EXCEPT !.pc = "level", !.level = r.level]
    /\ UNCHANGED <<now, handler, current_signal_level, op, payload, reply, dbBefore, arg,
                   selection, callback>>

\* changed = self._update_signal_level(new_signal_level)
LoopLevel ==
    /\ control.thread = "running"
    /\ control.pc = "level"
    /\ \E raises \in BOOLEAN :
         current_signal_level' =
             update_signal_level(current_signal_level, control.level, raises).level
    /\ control' = pass_done(control)
    /\ UNCHANGED <<now, handler, db, optouts, op, payload, reply, dbBefore, arg, selection,
                   callback>>

\* self._control_loop_signal.wait(CONTROL_LOOP_INTERVAL) returns because the
\* signal is set.
LoopWakeSignal ==
    /\ control.thread = "running"
    /\ control.pc = "wait"
    /\ control.signal
    /\ control' = [control EXCEPT !.pc = "clear"]
    /\ UNCHANGED <<now, handler, db, optouts, current_signal_level, op, payload, reply, dbBefore,
                   arg, selection, callback>>

\* self._control_loop_signal.wait(CONTROL_LOOP_INTERVAL) returns on its
\* timeout.
LoopTimeout ==
    /\ control.thread = "running"
    /\ control.pc = "wait"
    /\ control' = [control EXCEPT !.pc = "clear"]
    /\ UNCHANGED <<now, handler, db, optouts, current_signal_level, op, payload, reply, dbBefore,
                   arg, selection, callback>>

\* self._control_loop_signal.clear()
LoopClear ==
    /\ control.thread = "running"
    /\ control.pc = "clear"
    /\ control' = [control EXCEPT !.pc = "test", !.signal = FALSE]
    /\ UNCHANGED <<now, handler, db, optouts, current_signal_level, op, payload, reply, dbBefore,
                   arg, selection, callback>>

\* The wait returns and the signal is cleared.
LoopWake == LoopWakeSignal \/ LoopTimeout \/ LoopClear

\* The steps of the thread that need no timeout.
LoopPrompt == LoopTest \/ LoopRead \/ LoopUpdate \/ LoopLevel \/ LoopWakeSignal \/ LoopClear

LoopStep == LoopTest \/ LoopRead \/ LoopUpdate \/ LoopLevel \/ LoopWake

\* EventController.exit: both flags are set, then the thread is joined for at
\* most two seconds; without a thread the join raises.
Exit ==
    /\ control' = [control EXCEPT !.exit = TRUE, !.signal = TRUE,
                                  !.raised = (control.raised \/ control.thread = "none")]
    /\ UNCHANGED <<now, handler, db, optouts, current_signal_level, op, payload, reply, dbBefore,
                   arg, selection, callback>>

\* handle_payload on the transport's thread: the loop over the broadcast's
\* events.
IngestEvents ==
    /\ control.ingest.pc = "idle"
    /\ \E p \in LoopPayloads :
         \E st \in handle_events(handler, optouts, now,
                                 [db |-> db, reply_events |-> <<>>, all_events |-> {},
                                  raised |-> FALSE],
                                 p.events, p.requestID) :
            /\ db' = st.db
            /\ payload' = Some(p)
            /\ control' = [control EXCEPT !.ingest =
                             IF st.raised THEN NoIngest
                             ELSE [pc |-> "read", all_events |-> st.all_events,
                                   reply_events |-> st.reply_events, active |-> <<>>]]
    /\ UNCHANGED <<now, handler, optouts, current_signal_level, op, reply, dbBefore, arg,
                   selection, callback>>

\* handle_payload: for evt in self.get_active_events()
IngestRead ==
    /\ control.ingest.pc = "read"
    /\ \E active \in get_active_events(handler, optouts, db) :
         control' = [control EXCEPT !.ingest.pc = "cancel", !.ingest.active = active]
    /\ UNCHANGED <<now, handler, db, optouts, current_signal_level, op, payload, reply, dbBefore,
                   arg, selection, callback>>

\* handle_payload: the implicit cancellations are written and the reply is
\* built; the poll transport, given a reply, calls events_updated.
IngestCancel ==
    /\ control.ingest.pc = "cancel"
    /\ db' \in cancel_missing(db, now, control.ingest.active, control.ingest.all_events)
    /\ control' = IF control.ingest.reply_events # <<>>
                  THEN events_updated([control EXCEPT !.ingest = NoIngest])
                  ELSE [control EXCEPT !.ingest = NoIngest]
    /\ payload' = None
    /\ UNCHANGED <<now, handler, optouts, current_signal_level, op, reply, dbBefore, arg,
                   selection, callback>>

NextLoop ==
    LoopTest \/ LoopRead \/ LoopUpdate \/ LoopLevel \/ LoopWake \/ Exit
        \/ IngestEvents \/ IngestRead \/ IngestCancel \/ Tick

SpecLoop == InitLoop /\ [][NextLoop]_vars

\* The control thread is scheduled and its wait times out.
SpecLoopFair == SpecLoop /\ WF_vars(LoopStep)

\* The control thread is scheduled; nothing is assumed of the timeout.
SpecLoopPrompt == SpecLoop /\ WF_vars(LoopPrompt)

(* ------------- the store's writer beside the control thread ------------ *)
\* The transport's thread adds an event the store does not hold.
AddEvent ==
    /\ op = "idle"
    /\ \E i \in EventIds \ DOMAIN db :
         \E evt \in from_xml(Xml(i, 0, "active", None, "none", "always")) :
            db' = db_add_event(db, evt)
    /\ UNCHANGED <<now, handler, optouts, current_signal_level, op, payload, reply, dbBefore,
                   arg, selection, callback, control>>

\* DBHandler.update_event, first statement: self.remove_events([event.id]);
\* the new version (kept in payload) is one of a higher mod_number.
UpdateRemove ==
    /\ op = "idle"
    /\ \E i \in DOMAIN db : \E m \in 0..MaxMod : \E st \in Statuses :
         /\ m > db[i].mod_number
         /\ \E evt \in from_xml(Xml(i, m, st, None, "none", "always")) :
              payload' = Some(evt)
         /\ arg' = i
         /\ db' = db_remove_events(db, {i})
    /\ dbBefore' = db
    /\ op' = "update_event"
    /\ UNCHANGED <<now, handler, optouts, current_signal_level, reply, selection, callback,
                   control>>

\* DBHandler.update_event, second statement: self.add_event(event).
UpdateAdd ==
    /\ op = "update_event"
    /\ db' = db_add_event(db, payload[1])
    /\ op' = "idle"
    /\ payload' = None
    /\ arg' = NoneId
    /\ dbBefore' = <<>>
    /\ UNCHANGED <<now, handler, optouts, current_signal_level, reply, selection, callback,
                   control>>

\* The clock, also while an update is in progress.
TickUpdate == TickWhen({"idle", "update_event"})

\* No transport runs here, so the loop's wait returns on its timeout only.
NextStore ==
    AddEvent \/ UpdateRemove \/ UpdateAdd
        \/ LoopTest \/ LoopRead \/ LoopUpdate \/ LoopLevel \/ LoopTimeout \/ LoopClear
        \/ TickUpdate

SpecStore == InitLoop /\ [][NextStore]_vars

(* =============================== claims ================================ *)
\* What the claims speak of, read off the recorded call.
Handled == op \in {"handle_payload", "redelivery"}
Broadcast == payload[1]
Events == Broadcast.events
Carried == {Events[k].id : k \in 1..Len(Events)}
VtnRefused == handler.vtn_ids # {} /\ Broadcast.vtnID \notin handler.vtn_ids
Processed == Handled /\ ~VtnRefused
Responses == IF reply = None THEN <<>> ELSE reply[1].eventResponses
Answered(id, opt, code) ==
    \E k \in 1..Len(Responses) :
        Responses[k].id = id /\ Responses[k].opt = opt /\ Responses[k].status = code
AnsweredOpt(id, opt) ==
    \E k \in 1..Len(Responses) : Responses[k].id = id /\ Responses[k].opt = opt
OwnIds == {handler.party_id, handler.group_id, handler.resource_id, handler.ven_id}
TargetMatches(x) ==
    \/ (x.party_ids = <<>> /\ x.group_ids = <<>> /\ x.resource_ids = <<>> /\ x.ven_ids = <<>>)
    \/ handler.party_id \in SeqToSet(x.party_ids)
    \/ handler.group_id \in SeqToSet(x.group_ids)
    \/ handler.resource_id \in SeqToSet(x.resource_ids)
    \/ handler.ven_id \in SeqToSet(x.ven_ids)
ContextAllowed(x) ==
    handler.market_contexts = {} \/ x.market_context \in handler.market_contexts
Stale(x) == x.id \in DOMAIN dbBefore /\ x.mod_number < dbBefore[x.id].mod_number
PassesChecks(x) ==
    /\ ~Stale(x)
    /\ TargetMatches(x)
    /\ x.id \notin optouts
    /\ x.signals # <<>>
    /\ ContextAllowed(x)

\* C1: a broadcast whose vtnID is not in a non-empty allow-list is answered
\* with top-level responseCode 400 and the store after the call is the store
\* before it.
C1_UnknownVtnRejected ==
    (Handled /\ VtnRefused) =>
        /\ reply # None
        /\ reply[1].responseCode = "400"
        /\ db = dbBefore

\* C1 witness: a refused broadcast that carried an event not yet stored while
\* the store held another event it omitted.
C1_Witness ==
    /\ Handled /\ VtnRefused
    /\ dbBefore # <<>>
    /\ \E k \in 1..Len(Events) : Events[k].id \notin DOMAIN dbBefore
    /\ reply[1].responseCode = "400"

\* C2 (as stated): a broadcast carrying a stored event at a lower mod_number is
\* answered (optOut, 403) for it and leaves the stored event unchanged.
C2_StaleAnswered403 ==
    Processed =>
        \A k \in 1..Len(Events) :
            Stale(Events[k]) =>
                /\ Events[k].response_required = "always"
                     => \A j \in 1..Len(Responses) :
                            Responses[j].id = Events[k].id
                                => Responses[j].opt = "optOut" /\ Responses[j].status = "403"
                /\ Events[k].id \in DOMAIN db
                /\ db[Events[k].id] = dbBefore[Events[k].id]

\* C2 (amended): the entry is optOut and the stored event is unchanged; the
\* code is 403 when the event's market context is allowed and the event is not
\* opted out.
C2_StaleOptOut ==
    Processed =>
        \A k \in 1..Len(Events) :
            Stale(Events[k]) =>
                /\ Events[k].response_required = "always"
                     => /\ AnsweredOpt(Events[k].id, "optOut")
                        /\ \A j \in 1..Len(Responses) :
                             Responses[j].id = Events[k].id =>
                               /\ Responses[j].opt = "optOut"
                               /\ (ContextAllowed(Events[k]) /\ Events[k].id \notin optouts)
                                     => Responses[j].status = "403"
                /\ Events[k].id \in DOMAIN db
                /\ db[Events[k].id] = dbBefore[Events[k].id]

\* C2 witness: a stale, otherwise valid version was answered (optOut, 403).
C2_Witness ==
    /\ Processed
    /\ \E k \in 1..Len(Events) :
         /\ Stale(Events[k])
         /\ ContextAllowed(Events[k])
         /\ TargetMatches(Events[k])
         /\ Answered(Events[k].id, "optOut", "403")
         /\ db[Events[k].id].mod_number > Events[k].mod_number

\* C3: handle_payload drops no stored id and never lowers a stored mod_number.
C3_ModNumberMonotonic ==
    Handled =>
        /\ DOMAIN dbBefore \subseteq DOMAIN db
        /\ \A id \in DOMAIN dbBefore : db[id].mod_number >= dbBefore[id].mod_number

\* C3 witness: a call raised a stored mod_number, and another call was refused
\* a lower one.
C3_Witness ==
    /\ Processed
    /\ \E id \in DOMAIN dbBefore : db[id].mod_number > dbBefore[id].mod_number

\* C4: an accepted version with a higher mod_number replaces the stored one
\* (mod_number, status, intervals); one with the same mod_number leaves the
\* stored event unchanged.
C4_ReplaceOnHigherMod ==
    Processed =>
        \A k \in 1..Len(Events) :
            LET x == Events[k]
            IN  (x.id \in DOMAIN dbBefore /\ PassesChecks(x)) =>
                  /\ x.id \in DOMAIN db
                  /\ x.mod_number > dbBefore[x.id].mod_number =>
                       /\ db[x.id].mod_number = x.mod_number
                       /\ db[x.id].status = x.status
                       /\ db[x.id].signals = x.signals
                  /\ x.mod_number = dbBefore[x.id].mod_number =>
                       db[x.id] = dbBefore[x.id]

\* C4 witness: a stored event was replaced by a version of another status.
C4_Witness ==
    /\ Processed
    /\ \E k \in 1..Len(Events) :
         LET x == Events[k]
         IN  /\ x.id \in DOMAIN dbBefore
             /\ PassesChecks(x)
             /\ x.mod_number > dbBefore[x.id].mod_number
             /\ x.status # dbBefore[x.id].status
             /\ db[x.id].mod_number = x.mod_number

\* C4 witness of the equal case is part of the same reachable set: a version of
\* the stored mod_number and of another status left the store unchanged.
C4_WitnessEqual ==
    /\ Processed
    /\ \E k \in 1..Len(Events) :
         LET x == Events[k]
         IN  /\ x.id \in DOMAIN dbBefore
             /\ PassesChecks(x)
             /\ x.mod_number = dbBefore[x.id].mod_number
             /\ x.status # dbBefore[x.id].status

\* C5 (as stated): handling the same broadcast a second time leaves every
\* stored event as the first handling left it.
C5_RedeliveryIdempotent ==
    op = "redelivery" => db = dbBefore

\* C6 (as stated): check_target_info accepts an event iff its four target sets
\* are empty or one of the VEN's own ids is in the corresponding set, and an
\* event it does not accept is answered (optOut, 403).
C6_TargetOrAnswered403 ==
    Processed =>
        \A k \in 1..Len(Events) :
            /\ \A evt \in from_xml(Events[k]) :
                 check_target_info(handler, evt) <=> TargetMatches(Events[k])
            /\ ~TargetMatches(Events[k]) => Answered(Events[k].id, "optOut", "403")

\* C6 (amended): the same equivalence; an event that is not accepted is
\* answered optOut, with code 403 when its market context is allowed and it is
\* not opted out; an event that is accepted and passes the other rules is
\* answered (optIn, 200).
C6_TargetOr ==
    Processed =>
        \A k \in 1..Len(Events) :
            LET x == Events[k]
            IN  /\ \A evt \in from_xml(x) :
                     check_target_info(handler, evt) <=> TargetMatches(x)
                /\ ~TargetMatches(x) =>
                     /\ AnsweredOpt(x.id, "optOut")
                     /\ ~AnsweredOpt(x.id, "optIn")
                     /\ (ContextAllowed(x) /\ x.id \notin optouts)
                          => Answered(x.id, "optOut", "403")
                /\ (x.response_required = "always" /\ PassesChecks(x))
                     => Answered(x.id, "optIn", "200")

\* C6 witness: an event naming two criteria, one matching and one not, was
\* accepted, on a VEN configured with the matching id.
C6_Witness ==
    /\ Processed
    /\ \E k \in 1..Len(Events) :
         /\ Events[k].party_ids # <<>>
         /\ handler.party_id \notin SeqToSet(Events[k].party_ids)
         /\ handler.resource_id \in SeqToSet(Events[k].resource_ids)
         /\ Answered(Events[k].id, "optIn", "200")

\* C6 witness of the refusal: an event naming only foreign ids was answered
\* (optOut, 403).
C6_WitnessRefused ==
    /\ Processed
    /\ \E k \in 1..Len(Events) :
         /\ ~TargetMatches(Events[k])
         /\ Answered(Events[k].id, "optOut", "403")

\* C7: an event with no stored version that fails the target match or the
\* market-context allow-list is answered optOut and is neither stored nor
\* returned by get_active_events after the call.
C7_RejectedNewEventAbsent ==
    Processed =>
        \A k \in 1..Len(Events) :
            LET x == Events[k]
            IN  (x.id \notin DOMAIN dbBefore /\ (~TargetMatches(x) \/ ~ContextAllowed(x))) =>
                  /\ x.response_required = "always" =>
                       (AnsweredOpt(x.id, "optOut") /\ ~AnsweredOpt(x.id, "optIn"))
                  /\ x.id \notin DOMAIN db
                  /\ \A active \in get_active_events(handler, optouts, db) :
                       \A j \in 1..Len(active) : active[j].id # x.id

\* C7 witness: a broadcast mixed such an event with an event that was stored.
C7_Witness ==
    /\ Processed
    /\ \E k \in 1..Len(Events) :
         /\ Events[k].id \notin DOMAIN dbBefore
         /\ ~ContextAllowed(Events[k])
         /\ AnsweredOpt(Events[k].id, "optOut")
         /\ Events[k].id \notin DOMAIN db
    /\ DOMAIN db # DOMAIN dbBefore

\* C7 witness of the target case.
C7_WitnessTarget ==
    /\ Processed
    /\ \E k \in 1..Len(Events) :
         /\ Events[k].id \notin DOMAIN dbBefore
         /\ ~TargetMatches(Events[k])
         /\ AnsweredOpt(Events[k].id, "optOut")
         /\ Events[k].id \notin DOMAIN db

\* C8 (as stated): after optout_event(e) for a stored event e, e is in the
\* opt-out set.
C8_OptoutRecorded ==
    (op = "optout_event" /\ arg \in DOMAIN dbBefore) => arg \in optouts

\* C9: a stored event omitted from a processed broadcast stays stored, is
\* cancelled, and ends within [now, now + its cancellation offset] (at now
\* without an offset); every event of the broadcast that passes the rules is
\* stored.
C9_ImplicitCancellation ==
    Processed =>
        /\ \A id \in (DOMAIN dbBefore) \ Carried :
             /\ id \in DOMAIN db
             /\ db[id].status = "cancelled"
             /\ now <= db[id].end
             /\ db[id].end <= now + (IF dbBefore[id].cancellation_offset = None
                                     THEN 0 ELSE dbBefore[id].cancellation_offset[1])
        /\ \A k \in 1..Len(Events) : PassesChecks(Events[k]) => Events[k].id \in DOMAIN db

\* C9 witness: an active stored event with an offset was omitted, ends after
\* now, and an event of the broadcast was newly stored beside it.
C9_Witness ==
    /\ Processed
    /\ \E id \in (DOMAIN dbBefore) \ Carried :
         /\ dbBefore[id].status = "active"
         /\ dbBefore[id].cancellation_offset # None
         /\ db[id].status = "cancelled"
         /\ db[id].end > now
    /\ \E k \in 1..Len(Events) :
         Events[k].id \notin DOMAIN dbBefore /\ Events[k].id \in DOMAIN db

\* C9 witness of the case without an offset: the end was moved to now.
C9_WitnessNoOffset ==
    /\ Processed
    /\ \E id \in (DOMAIN dbBefore) \ Carried :
         /\ dbBefore[id].cancellation_offset = None
         /\ dbBefore[id].end # now
         /\ db[id].status = "cancelled"
         /\ db[id].end = now

\* C10 (as stated): when a broadcast cancels, at a higher mod_number, a stored
\* active event that has a cancellation offset, an end strictly later than now
\* is among the outcomes of handle_payload.
C10_ExplicitCancelRandomized ==
    op = "idle" =>
        \A p \in Payloads : \A k \in 1..Len(p.events) :
            LET x == p.events[k]
            IN  ( /\ p.vtnID \in handler.vtn_ids
                  /\ x.id \in DOMAIN db
                  /\ db[x.id].status = "active"
                  /\ db[x.id].cancellation_offset # None
                  /\ db[x.id].cancellation_offset[1] > 0
                  /\ x.status = "cancelled"
                  /\ x.mod_number > db[x.id].mod_number
                  /\ TargetMatches(x) /\ ContextAllowed(x) /\ x.signals # <<>>
                  /\ x.id \notin optouts )
                => \E out \in handle_payload(handler, optouts, db, now, p) :
                       /\ out.db[x.id].status = "cancelled"
                       /\ out.db[x.id].end > now

\* The selections a control pass can compute over the store d at instant t.
SelectionsAt(d, t) ==
    { calculate_current_event_status(events, t) :
        events \in get_active_events(handler, optouts, d) }

\* An event of the broadcast that arrived cancelled, was not stored before and
\* passes the acceptance rules.
NewCancelled(x) == x.status = "cancelled" /\ x.id \notin DOMAIN dbBefore /\ PassesChecks(x)

\* C11 (as stated): a cancelled event with an id not in the store is answered
\* (optIn, 200) and stored as cancelled with end = now, and the next selection
\* over the store, whenever it is made, lists it as expired, with level 0 and
\* no leading event when it is the only stored event.
C11_NewCancelledExpiredNext ==
    Processed =>
        \A k \in 1..Len(Events) :
            LET x == Events[k]
            IN  NewCancelled(x) =>
                  /\ x.response_required = "always" => Answered(x.id, "optIn", "200")
                  /\ x.id \in DOMAIN db
                  /\ db[x.id].status = "cancelled"
                  /\ db[x.id].end = now
                  /\ \A t \in now..(MaxTime + 1) : \A r \in SelectionsAt(db, t) :
                       /\ InSeq(x.id, r.remove_events)
                       /\ DOMAIN db = {x.id} => (r.level = 0 /\ r.current_event = None)

\* C11 (amended): the same, for a selection made at an instant later than the
\* handling; and a control pass over a store holding a cancelled event whose
\* end is before now lists it as expired, does not lead with it and removes it.
C11_NewCancelledExpiredLater ==
    /\ Processed =>
         \A k \in 1..Len(Events) :
             LET x == Events[k]
             IN  NewCancelled(x) =>
                   /\ x.response_required = "always" => Answered(x.id, "optIn", "200")
                   /\ x.id \in DOMAIN db
                   /\ db[x.id].status = "cancelled"
                   /\ db[x.id].end = now
                   /\ \A t \in (now + 1)..(MaxTime + 1) : \A r \in SelectionsAt(db, t) :
                        /\ InSeq(x.id, r.remove_events)
                        /\ r.current_event # Some(x.id)
                        /\ DOMAIN db = {x.id} => (r.level = 0 /\ r.current_event = None)
    /\ op = "control" =>
         \A id \in DOMAIN dbBefore :
             (dbBefore[id].status = "cancelled" /\ dbBefore[id].end < now) =>
                 /\ InSeq(id, selection[1].remove_events)
                 /\ selection[1].current_event # Some(id)
                 /\ id \notin DOMAIN db
                 /\ DOMAIN dbBefore = {id} =>
                      (selection[1].level = 0 /\ selection[1].current_event = None)

\* C11 witness: a new event that arrived cancelled was answered (optIn, 200)
\* and stored with end = now, an end other than the one its active period gives.
C11_Witness ==
    /\ Processed
    /\ \E k \in 1..Len(Events) :
         /\ NewCancelled(Events[k])
         /\ Answered(Events[k].id, "optIn", "200")
         /\ db[Events[k].id].status = "cancelled"
         /\ db[Events[k].id].end = now
         /\ now # Events[k].dtstart + Events[k].duration

\* C11 witness of the selection: a control pass found a cancelled event, the
\* only stored one, whose end had passed, and listed it as expired.
C11_WitnessSelected ==
    /\ op = "control"
    /\ \E id \in DOMAIN dbBefore :
         /\ DOMAIN dbBefore = {id}
         /\ dbBefore[id].status = "cancelled"
         /\ dbBefore[id].end < now
         /\ selection[1].remove_events = <<id>>
         /\ selection[1].level = 0
         /\ selection[1].current_event = None
         /\ db = <<>>

\* The events of the broadcast whose oadrResponseRequired is "always", in
\* document order.
RequiringResponse == SelectSeq(Events, LAMBDA x : x.response_required = "always")

\* C12: the reply of a processed broadcast has one entry per event whose
\* oadrResponseRequired is "always", accepted or rejected, in document order
\* (the entry names the event's id and mod_number); the reply is none exactly
\* when no event requires a response.
C12_ReplyEntries ==
    Processed =>
        /\ Len(Responses) = Len(RequiringResponse)
        /\ \A j \in 1..Len(Responses) :
             /\ Responses[j].id = RequiringResponse[j].id
             /\ Responses[j].mod_number = RequiringResponse[j].mod_number
        /\ (reply = None) <=> (RequiringResponse = <<>>)

\* C12 witness: a broadcast of two events, the first not requiring a response
\* and stored, the second requiring one and rejected: the reply has the one
\* entry of the second.
C12_Witness ==
    /\ Processed
    /\ Len(Events) = 2
    /\ Events[1].response_required = "never"
    /\ Events[1].id \in DOMAIN db /\ Events[1].id \notin DOMAIN dbBefore
    /\ Len(Responses) = 1
    /\ Responses[1].id = Events[2].id
    /\ Responses[1].opt = "optOut"

\* C12 witness of the order: two entries, an optOut before an optIn, in the
\* order of the broadcast.
C12_WitnessOrder ==
    /\ Processed
    /\ Len(Events) = 2
    /\ Len(Responses) = 2
    /\ Responses[1].id = Events[1].id /\ Responses[1].opt = "optOut"
    /\ Responses[2].id = Events[2].id /\ Responses[2].opt = "optIn"

\* C12 witness of the empty reply: an event not requiring a response was
\* stored and the reply was none.
C12_WitnessNone ==
    /\ Processed
    /\ Events # <<>>
    /\ reply = None
    /\ DOMAIN db # DOMAIN dbBefore

\* C13: the reply to a processed broadcast has top-level responseCode 200, an
\* empty top-level requestID and the VEN's venID whatever its entries say;
\* every entry carries the broadcast's requestID; an event that fails a rule is
\* answered (optOut, 403 or 405) and an event that passes them all is answered
\* (optIn, 200) and is stored after the call.
C13_MixedBroadcast ==
    Processed =>
        /\ reply # None =>
             /\ reply[1].responseCode = "200"
             /\ reply[1].requestID = ""
             /\ reply[1].venID = handler.ven_id
        /\ \A j \in 1..Len(Responses) : Responses[j].requestID = Broadcast.requestID
        /\ \A k \in 1..Len(Events) :
             LET x == Events[k]
             IN  /\ \A j \in 1..Len(Responses) :
                      Responses[j].id = x.id =>
                        IF PassesChecks(x)
                        THEN Responses[j].opt = "optIn" /\ Responses[j].status = "200"
                        ELSE Responses[j].opt = "optOut" /\ Responses[j].status \in {"403", "405"}
                 /\ PassesChecks(x) => x.id \in DOMAIN db

\* C13 witness: a broadcast of an invalid and a valid event, both answered,
\* the invalid one (optOut, 403) and not stored, the valid one (optIn, 200)
\* and newly stored, under a top-level 200.
C13_Witness ==
    /\ Processed
    /\ reply # None
    /\ reply[1].responseCode = "200"
    /\ reply[1].requestID = ""
    /\ \E k, l \in 1..Len(Events) :
         /\ ~PassesChecks(Events[k])
         /\ Answered(Events[k].id, "optOut", "403")
         /\ Events[k].id \notin DOMAIN db
         /\ PassesChecks(Events[l])
         /\ Answered(Events[l].id, "optIn", "200")
         /\ Events[l].id \in DOMAIN db /\ Events[l].id \notin DOMAIN dbBefore
    /\ \A j \in 1..Len(Responses) : Responses[j].requestID = REQUEST_ID

\* C14 (as stated): the error reply to a broadcast with an unknown vtnID
\* carries that broadcast's requestID at the top level, and the VEN's venID.
C14_ErrorReplyEchoesRequestId ==
    (Handled /\ VtnRefused) =>
        /\ reply # None
        /\ reply[1].requestID = Broadcast.requestID
        /\ reply[1].venID = handler.ven_id

\* C15: every stored event that was ingested with a startafter value has
\* original_start <= start <= original_start + startafter, and every stored
\* event ingested without one has start = original_start.
C15_StartWithinTolerance ==
    \A id \in DOMAIN db :
        IF db[id].cancellation_offset = None
        THEN db[id].start = db[id].original_start
        ELSE /\ db[id].original_start <= db[id].start
             /\ db[id].start <= db[id].original_start + db[id].cancellation_offset[1]

\* C15 witness: an event ingested with a startafter value was stored with its
\* start at the far end of the tolerance, later than its original start.
C15_Witness ==
    /\ Processed
    /\ \E k \in 1..Len(Events) :
         LET x == Events[k]
         IN  /\ x.startafter # None
             /\ x.id \in DOMAIN db
             /\ x.id \notin DOMAIN dbBefore
             /\ db[x.id].original_start = x.dtstart
             /\ db[x.id].start = x.dtstart + x.startafter[1]
             /\ db[x.id].start > db[x.id].original_start

\* C15 witness of the case without a startafter value.
C15_WitnessNoOffset ==
    /\ Processed
    /\ \E k \in 1..Len(Events) :
         /\ Events[k].startafter = None
         /\ Events[k].id \in DOMAIN db
         /\ Events[k].id \notin DOMAIN dbBefore
         /\ db[Events[k].id].start = Events[k].dtstart

\* C16 (as stated): when an accepted version with a higher mod_number, the
\* same original start and the same startafter replaces a stored event, the
\* stored start after the update is the stored start before it.
C16_StartOffsetDrawnOnce ==
    Processed =>
        \A k \in 1..Len(Events) :
            LET x == Events[k]
            IN  ( /\ x.id \in DOMAIN dbBefore
                  /\ PassesChecks(x)
                  /\ x.mod_number > dbBefore[x.id].mod_number
                  /\ x.dtstart = dbBefore[x.id].original_start
                  /\ x.startafter = dbBefore[x.id].cancellation_offset )
                => db[x.id].start = dbBefore[x.id].start

\* C17 (as stated): every stored event that is not cancelled and whose
\* intervals sum to a non-zero duration has end = start + that sum, start
\* being the effective (randomized) start.
C17_EndFromEffectiveStart ==
    \A id \in DOMAIN db :
        (db[id].status # "cancelled" /\ TotalDuration(db[id].signals) > 0) =>
            db[id].end = db[id].start + TotalDuration(db[id].signals)

\* The levels of the intervals whose cumulative window from start, taken in
\* the order of the list, contains t (at most one).
WindowLevels(signals, start, t) ==
    { signals[k].level :
        k \in { j \in 1..Len(signals) :
                  /\ start + TotalDuration(SubSeq(signals, 1, j - 1)) < t
                  /\ t <= start + TotalDuration(SubSeq(signals, 1, j)) } }

\* What the control pass's selection returned.
Selected == <<selection[1].level, selection[1].current_event, selection[1].remove_events>>

\* C18 (as stated): a selection over a single event returns (L, id, []) for a
\* non-test event with start < now < start + sum(durations), L being the level
\* of the interval whose cumulative window contains now; (0, None, []) for an
\* event with now < start; and (0, None, [id]) for an event that is not
\* cancelled and has end < now.
C18_SingleEventSelection ==
    (op = "control" /\ Len(selection[1].events) = 1) =>
        LET evt == selection[1].events[1]
        IN  /\ ( /\ ~evt.test_event
                 /\ evt.start < now
                 /\ now < evt.start + TotalDuration(evt.signals) )
                 => \E L \in WindowLevels(evt.signals, evt.start, now) :
                        Selected = <<L, Some(evt.id), <<>>>>
            /\ now < evt.start => Selected = <<0, None, <<>>>>
            /\ (evt.status # "cancelled" /\ evt.end < now)
                 => Selected = <<0, None, <<evt.id>>>>

\* The list a selection was given, without the event of the given id.
Without(events, id) == SelectSeq(events, LAMBDA e : e.id # id)

\* C19: the level and the leading event id selected for a list holding a test
\* event are those selected for the list without it; and an accepted test
\* event is stored, as a test event, and returned by get_active_events.
C19_TestEventNoInfluence ==
    /\ op = "control" =>
         \A k \in 1..Len(selection[1].events) :
             selection[1].events[k].test_event =>
                 LET r == calculate_current_event_status(
                              Without(selection[1].events, selection[1].events[k].id), now)
                 IN  /\ r.level = selection[1].level
                     /\ r.current_event = selection[1].current_event
    /\ Processed =>
         \A k \in 1..Len(Events) :
             LET x == Events[k]
             IN  (x.test_event /\ PassesChecks(x) /\ x.id \notin DOMAIN dbBefore) =>
                   /\ x.id \in DOMAIN db
                   /\ db[x.id].test_event
                   /\ \A active \in get_active_events(handler, optouts, db) :
                        \E j \in 1..Len(active) : active[j].id = x.id /\ active[j].test_event

\* C19 witness: a control pass over two events, a test event in a current
\* interval of a level above the selected one, and the other event leading.
C19_Witness ==
    /\ op = "control"
    /\ Len(selection[1].events) = 2
    /\ \E k \in 1..2 :
         LET T == selection[1].events[k]
         IN  /\ T.test_event
             /\ get_current_interval(T, now) # None
             /\ get_current_interval(T, now)[1].level > selection[1].level
             /\ selection[1].current_event # None
             /\ selection[1].current_event # Some(T.id)

\* C19 witness of the single test event: in its current interval, level 0 and
\* no leading event, and the event still stored after the pass.
C19_WitnessAlone ==
    /\ op = "control"
    /\ Len(selection[1].events) = 1
    /\ selection[1].events[1].test_event
    /\ get_current_interval(selection[1].events[1], now) # None
    /\ Selected = <<0, None, <<>>>>
    /\ selection[1].events[1].id \in DOMAIN db

\* The stored event of the given id is a candidate at t: in a current interval
\* and not a cancelled event whose end has passed.
Candidate(d, id, t) ==
    /\ WindowLevels(d[id].signals, d[id].start, t) # {}
    /\ ~(d[id].status = "cancelled" /\ t > d[id].end)

\* C20 (as stated): when two accepted non-test events of one broadcast are in
\* a current interval at the same instant, every selection made at that
\* instant leads with the event of the greater priority, at its level.
C20_PriorityOverlap ==
    Processed =>
        \A k, l \in 1..Len(Events) :
            LET x == Events[k]
                y == Events[l]
            IN  ( /\ x.id \in (DOMAIN db) \ DOMAIN dbBefore
                  /\ y.id \in (DOMAIN db) \ DOMAIN dbBefore
                  /\ ~x.test_event /\ ~y.test_event
                  /\ x.priority > y.priority ) =>
                    \A t \in now..MaxTime :
                        (Candidate(db, x.id, t) /\ Candidate(db, y.id, t)) =>
                            \A r \in SelectionsAt(db, t) :
                                /\ r.current_event = Some(x.id)
                                /\ r.level \in WindowLevels(db[x.id].signals, db[x.id].start, t)

\* The positions of a list whose events are candidates at t: not test events,
\* in a current interval, and not cancelled events whose end has passed.
CandidatesIn(events, t) ==
    { k \in 1..Len(events) :
        /\ ~events[k].test_event
        /\ WindowLevels(events[k].signals, events[k].start, t) # {}
        /\ ~(events[k].status = "cancelled" /\ t > events[k].end) }

\* The selection over a list leads with the first candidate of the list, at
\* the level of its current interval, and no candidate starts before it.
FirstCandidateLeads(events, t, r) ==
    LET cs == CandidatesIn(events, t)
    IN  cs # {} =>
          \E first \in cs :
              /\ \A k \in cs : first <= k /\ events[first].start <= events[k].start
              /\ r.current_event = Some(events[first].id)
              /\ r.level \in WindowLevels(events[first].signals, events[first].start, t)

\* C21: get_active_events returns every stored event, in ascending order of
\* start; a selection leads with the first candidate visited, which no other
\* candidate precedes in start, whatever the levels of the later ones; so for
\* two accepted events of equal priority the one listed first wins.
C21_FirstActivatedWins ==
    /\ \A active \in get_active_events(handler, optouts, db) :
         /\ {active[k].id : k \in 1..Len(active)} = DOMAIN db
         /\ Len(active) = Cardinality(DOMAIN db)
         /\ \A a, b \in 1..Len(active) : a < b => active[a].start <= active[b].start
    /\ op = "control" => FirstCandidateLeads(selection[1].events, now, selection[1])
    /\ Processed =>
         \A k, l \in 1..Len(Events) :
             ( /\ Events[k].id \in (DOMAIN db) \ DOMAIN dbBefore
               /\ Events[l].id \in (DOMAIN db) \ DOMAIN dbBefore
               /\ k # l
               /\ Events[k].priority = Events[l].priority ) =>
                 \A t \in now..MaxTime :
                     \A active \in get_active_events(handler, optouts, db) :
                         FirstCandidateLeads(active, t,
                                             calculate_current_event_status(active, t))

\* C21 witness: a control pass over two candidates, the one that started
\* first leading at its level although the later one has a higher level.
C21_Witness ==
    /\ op = "control"
    /\ Len(selection[1].events) = 2
    /\ CandidatesIn(selection[1].events, now) = {1, 2}
    /\ selection[1].events[1].start < selection[1].events[2].start
    /\ selection[1].current_event = Some(selection[1].events[1].id)
    /\ \E L \in WindowLevels(selection[1].events[2].signals, selection[1].events[2].start, now) :
         L > selection[1].level

\* C21 witness of the equal priorities: a broadcast of two accepted events of
\* the same priority that are both stored and both current at a later instant.
C21_WitnessEqualPriority ==
    /\ Processed
    /\ Len(Events) = 2
    /\ Events[1].priority = Events[2].priority
    /\ {Events[1].id, Events[2].id} \subseteq (DOMAIN db) \ DOMAIN dbBefore
    /\ ~Events[1].test_event /\ ~Events[2].test_event
    /\ db[Events[1].id].start < db[Events[2].id].start
    /\ \E t \in now..MaxTime : Candidate(db, Events[1].id, t) /\ Candidate(db, Events[2].id, t)

\* C22 (as stated): a control pass never lists as expired a stored event that
\* is not cancelled and whose interval durations sum to zero, and at every
\* instant now >= start it returns the level and the id of such an event when
\* it is the only one and not a test event.
C22_UnendingEvent ==
    op = "control" =>
        \A k \in 1..Len(selection[1].events) :
            LET evt == selection[1].events[k]
            IN  ( /\ evt.status # "cancelled"
                  /\ evt.signals # <<>>
                  /\ TotalDuration(evt.signals) = 0 ) =>
                    /\ ~InSeq(evt.id, selection[1].remove_events)
                    /\ (Len(selection[1].events) = 1 /\ ~evt.test_event /\ now >= evt.start)
                         => Selected = <<evt.signals[1].level, Some(evt.id), <<>>>>

C23_WitnessPurged ==
    /\ op = "control"
    /\ \E id \in DOMAIN dbBefore :
         /\ dbBefore[id].status = "cancelled"
         /\ dbBefore[id].end < now
         /\ id \notin DOMAIN db
    /\ db # <<>>

\* C24 (as stated): every control pass hands the level its selection yields
\* to _update_signal_level, which calls the callback once with (old, new) when
\* the level differs, and leaves current_signal_level equal to that level,
\* also when a leading event exists.
C24_PassReportsLevel ==
    op = "control" =>
        /\ callback # None
        /\ callback[1].given = selection[1].level
        /\ callback[1].given # callback[1].old =>
               callback[1].calls = << <<callback[1].old, callback[1].given>> >>
        /\ current_signal_level = selection[1].level

\* C25: _update_signal_level, given a level different from the current one,
\* calls the callback once with (old, new), lets no exception of the callback
\* out and leaves current_signal_level at the new level; given the current
\* level it makes no call and leaves the level as it was.
C25_CallbackFailureAbsorbed ==
    callback # None =>
        LET u == callback[1]
        IN  /\ ~u.escaped
            /\ u.given # u.old =>
                   /\ u.calls = << <<u.old, u.given>> >>
                   /\ current_signal_level = u.given
                   /\ u.changed
            /\ u.given = u.old =>
                   /\ u.calls = <<>>
                   /\ current_signal_level = u.old
                   /\ ~u.changed

\* C25 witness: the callback raised on a level change from a nonzero level and
\* the level advanced.
C25_Witness ==
    /\ op = "update_signal_level"
    /\ callback[1].raises
    /\ callback[1].old # 0
    /\ callback[1].given # callback[1].old
    /\ current_signal_level = callback[1].given

\* C25 witness of the equal case: a nonzero level given again, no call made.
C25_WitnessEqual ==
    /\ op = "update_signal_level"
    /\ callback[1].given = callback[1].old
    /\ callback[1].old # 0
    /\ callback[1].calls = <<>>

\* C25 witness inside the loop: a control pass without a leading event took
\* the level back to 0 although the callback raised.
C25_WitnessPass ==
    /\ op = "control"
    /\ callback # None
    /\ callback[1].raises
    /\ callback[1].old # 0
    /\ current_signal_level = 0

\* C26 (as stated): when the transport has taken the result of a broadcast
\* that handle_payload processed, the control loop's signal is set, whether or
\* not a reply was made.
C26_ProcessedBroadcastNudges ==
    [][(Handled /\ Processed /\ op' = "idle") => control'.signal]_vars

\* C27: an exception in a control pass does not end the control thread: the
\* thread has exited only if the exit flag is set, a failed pass leaves the
\* thread running at its wait, and after a failed pass the loop runs another
\* pass unless exit() is called first.
C27_LoopSurvivesExceptions ==
    /\ [](control.thread = "exited" => control.exit)
    /\ [](control.failed => (control.thread = "running" /\ control.pc \in {"wait", "clear", "test"}))
    /\ (control.failed ~> (control.pc = "read" \/ control.exit))

\* C27 witness: a pass failed, the loop waited and is about to test its
\* condition again, the exit flag clear.
C27_Witness ==
    /\ control.failed
    /\ control.pc = "test"
    /\ ~control.exit
    /\ db # <<>>

\* C28: once exit() has been called on a controller with a running thread,
\* the thread eventually exits, and at most one pass completes after the flag
\* was set.
C28_ExitTerminatesLoop ==
    /\ [](control.late <= 1)
    /\ ((control.exit /\ control.thread = "running") ~> control.thread = "exited")

\* C28 witness: the thread has exited after completing the pass that was in
\* flight when exit() was called.
C28_Witness ==
    /\ control.thread = "exited"
    /\ control.late = 1

\* C28 witness: the thread has exited without completing a pass after the
\* call of exit().
C28_WitnessAsleep ==
    /\ control.thread = "exited"
    /\ control.late = 0
    /\ db # <<>>

\* C29 (as stated): no call of exit() raises, whatever the controller's state.
C29_ExitIdempotent == ~control.raised

\* The pass in flight has read the active set and will remove events.
PassBetweenStoreOps ==
    /\ control.pc = "update"
    /\ calculate_current_event_status(control.events, now).remove_events # <<>>

\* The handle_payload call in progress has read the active set and will write
\* an implicit cancellation.
IngestBetweenStoreOps ==
    /\ control.ingest.pc = "cancel"
    /\ \E k \in 1..Len(control.ingest.active) :
         control.ingest.active[k].id \notin control.ingest.all_events

\* C30 (as stated): the control pass reads the active set or removes events
\* at no step taken between the first store access and the last store write
\* of a handle_payload call, and handle_payload accesses the store at no step
\* taken between the read and the removal of a control pass.
C30_MutualExclusion ==
    [][/\ IngestBetweenStoreOps =>
            ~ \/ control.pc = "read" /\ control'.pc = "update"
              \/ control.pc = "update" /\ db' # db
       /\ PassBetweenStoreOps => control'.ingest.pc = control.ingest.pc]_vars

\* The levels of the intervals whose closed window [prev_end, cum_end], taken
\* in the order of the list, is the first to contain t (at most one).
ClosedWindowLevels(signals, start, t) ==
    { signals[k].level :
        k \in { j \in 1..Len(signals) :
                  /\ start + TotalDuration(SubSeq(signals, 1, j - 1)) <= t
                  /\ t <= start + TotalDuration(SubSeq(signals, 1, j))
                  /\ \A i \in 1..(j - 1) :
                       ~ /\ start + TotalDuration(SubSeq(signals, 1, i - 1)) <= t
                         /\ t <= start + TotalDuration(SubSeq(signals, 1, i)) } }

\* C34 (as stated): a selection over a single active event that is not a test
\* event and has no interval of zero duration, made at an instant from its
\* start to the end of its last interval, boundaries included, returns the level of the first interval whose closed
\* window contains now.
C34_BoundaryInterval ==
    (op = "control" /\ Len(selection[1].events) = 1) =>
        LET evt == selection[1].events[1]
        IN  ( /\ ~evt.test_event
              /\ evt.status = "active"
              /\ \A k \in 1..Len(evt.signals) : evt.signals[k].duration > 0
              /\ evt.start <= now
              /\ now <= evt.start + TotalDuration(evt.signals) )
              => \E L \in ClosedWindowLevels(evt.signals, evt.start, now) :
                     /\ selection[1].level = L
                     /\ selection[1].current_event = Some(evt.id)

\* C38 (as stated): an accepted update that is cancelled, for an event stored
\* as cancelled at a lower mod_number, is stored with an end no later than the
\* instant of the update.
C38_CancelledNeverRevived ==
    (Handled /\ Processed) =>
        \A k \in 1..Len(Events) :
            LET x == Events[k]
            IN  ( /\ x.status = "cancelled"
                  /\ x.id \in DOMAIN dbBefore
                  /\ dbBefore[x.id].status = "cancelled"
                  /\ dbBefore[x.id].mod_number < x.mod_number
                  /\ x.id \in DOMAIN db
                  /\ db[x.id].mod_number = x.mod_number )
                => db[x.id].end <= now

\* C39 (as stated): a stored event that is already cancelled and is omitted
\* from a processed broadcast is left as it was stored.
C39_CancelledOmittedUntouched ==
    (Handled /\ Processed) =>
        \A id \in (DOMAIN dbBefore) \ Carried :
            dbBefore[id].status = "cancelled" =>
                (id \in DOMAIN db /\ db[id] = dbBefore[id])

\* An event the selection is to report as expired: cancelled and past its
\* end, or with signals, no interval window around t and its end before t.
Expired(evt, t) ==
    \/ evt.status = "cancelled" /\ t > evt.end
    \/ /\ evt.signals # <<>>
       /\ WindowLevels(evt.signals, evt.start, t) = {}
       /\ evt.end < t

\* What a control pass does to the store: one removal call with the ids the
\* selection reported, which are those of the expired events it was given, or
\* no call when there is none; the other rows stay as they were.
PassRemovesReported ==
    LET r == selection[1]
        ids == SeqToSet(r.remove_events)
    IN  /\ ids = {r.events[k].id : k \in {j \in 1..Len(r.events) : Expired(r.events[j], now)}}
        /\ r.removals = IF r.remove_events = <<>> THEN <<>> ELSE <<r.remove_events>>
        /\ DOMAIN db = (DOMAIN dbBefore) \ ids
        /\ \A id \in DOMAIN db : db[id] = dbBefore[id]

\* C36 (as stated): a control pass removes exactly the events its selection
\* reported as expired, calls no removal when there is none, and removes no
\* event that has not started yet (cancelled events past their end, which the
\* claim has removed, apart).
C36_RemovesExactlyExpired ==
    op = "control" =>
        /\ PassRemovesReported
        /\ \A k \in 1..Len(selection[1].events) :
             (selection[1].events[k].start > now
                 /\ selection[1].events[k].status # "cancelled") =>
                 ~InSeq(selection[1].events[k].id, selection[1].remove_events)

\* C33: get_current_signal_level returns the level and the leading event of
\* the selection over the active set as it is now, (0, None) when no stored
\* event is a candidate; it leaves the store, the opt-outs and
\* current_signal_level as they were and calls no callback; and
\* current_signal_level changes only in a step of _update_signal_level.
C33_QueryReadOnly ==
    /\ [](op = "get_current_signal_level" =>
            /\ selection[1].events \in get_active_events(handler, optouts, dbBefore)
            /\ FirstCandidateLeads(selection[1].events, now, selection[1])
            /\ (\A id \in DOMAIN dbBefore :
                    ~Candidate(dbBefore, id, now) \/ dbBefore[id].test_event)
                 => (selection[1].level = 0 /\ selection[1].current_event = None)
            /\ db = dbBefore
            /\ callback = None)
    /\ [][op' = "get_current_signal_level" =>
            /\ db' = db
            /\ optouts' = optouts
            /\ current_signal_level' = current_signal_level]_vars
    /\ [][current_signal_level' # current_signal_level =>
            op' \in {"control", "update_signal_level"}]_vars

\* C33 witness: a query found a leading event while current_signal_level held
\* another level and the store held an expired event, which stayed.
C33_Witness ==
    /\ op = "get_current_signal_level"
    /\ selection[1].current_event # None
    /\ selection[1].level # current_signal_level
    /\ current_signal_level # 0
    /\ selection[1].remove_events # <<>>
    /\ db = dbBefore

\* C33 witness of the idle case: a query over a store without a candidate
\* returned (0, None) and left a nonzero current_signal_level.
C33_WitnessNone ==
    /\ op = "get_current_signal_level"
    /\ db # <<>>
    /\ selection[1].level = 0
    /\ selection[1].current_event = None
    /\ current_signal_level # 0

\* The outcome the claim gives an event: that of the last rule, in the order
\* of the pipeline, that fires.
LastRuleOutcome(x) ==
    IF ~ContextAllowed(x) THEN <<"optOut", "405">>
    ELSE IF x.signals = <<>> THEN <<"optOut", "403">>
    ELSE IF x.id \in optouts THEN <<"optOut", "200">>
    ELSE IF ~TargetMatches(x) \/ Stale(x) THEN <<"optOut", "403">>
    ELSE <<"optIn", "200">>

\* C35: the reply entry of an event carries the outcome of the last rule that
\* fires (market context over missing signal over user opt-out over target
\* mismatch and mod-number regression), and an event a rule fired for leaves
\* the store as it was.
C35_LastRuleWins ==
    (Handled /\ Processed) =>
        \A k \in 1..Len(Events) :
            LET x == Events[k]
                r == LastRuleOutcome(x)
            IN  /\ Len(Responses) = Len(Events)
                /\ Responses[k].id = x.id
                /\ Responses[k].opt = r[1]
                /\ Responses[k].status = r[2]
                /\ r[1] = "optOut" => db = dbBefore

\* C35 witness: every rule fired for the event and it was answered 405.
C35_Witness ==
    /\ Handled /\ Processed
    /\ Stale(Events[1])
    /\ ~TargetMatches(Events[1])
    /\ Events[1].id \in optouts
    /\ Events[1].signals = <<>>
    /\ ~ContextAllowed(Events[1])
    /\ Answered(Events[1].id, "optOut", "405")
    /\ db = dbBefore

\* C35 witness: target mismatch and mod-number regression under a user
\* opt-out were answered (optOut, 200).
C35_WitnessOptOut ==
    /\ Handled /\ Processed
    /\ Stale(Events[1])
    /\ ~TargetMatches(Events[1])
    /\ Events[1].id \in optouts
    /\ Events[1].signals # <<>>
    /\ ContextAllowed(Events[1])
    /\ Answered(Events[1].id, "optOut", "200")

\* C35 witness: a user opt-out under a missing signal was answered 403.
C35_WitnessSignal ==
    /\ Handled /\ Processed
    /\ Events[1].id \in optouts
    /\ Events[1].signals = <<>>
    /\ ContextAllowed(Events[1])
    /\ Answered(Events[1].id, "optOut", "403")

\* C32 (as stated): in a processed broadcast with a malformed event, every
\* well-formed event that passes the rules is stored and answered optIn, and
\* every stored event the broadcast does not carry is cancelled.
C32_MalformedSkipped ==
    (Handled /\ Processed /\ \E k \in 1..Len(Events) : ~parses(Events[k])) =>
        /\ \A k \in 1..Len(Events) :
             (parses(Events[k]) /\ PassesChecks(Events[k])) =>
                 /\ Events[k].id \in DOMAIN db
                 /\ AnsweredOpt(Events[k].id, "optIn")
        /\ \A id \in (DOMAIN dbBefore) \ Carried : db[id].status = "cancelled"

\* C31 (as stated): a read of the active set made while update_event replaces
\* a stored event returns a list that holds the event, in its old or its new
\* version.
C31_UpdateAtomicForReaders ==
    [][(op = "update_event" /\ control.pc = "read" /\ control'.pc = "update") =>
          \E k \in 1..Len(control'.events) :
              /\ control'.events[k].id = arg
              /\ control'.events[k].mod_number \in
                     {dbBefore[arg].mod_number, payload[1].mod_number}]_vars

\* C40 (as stated): the removal of a control pass takes no stored event that
\* is not expired out of the store, also when ingest replaced the event after
\* the pass read the active set.
C40_RemovesNoLiveVersion ==
    [][(control.pc = "update" /\ control'.pc # "update") =>
          \A id \in DOMAIN db :
              ~Expired(db[id], now) => id \in DOMAIN db']_vars

\* C37: a call of events_updated on a controller whose thread is running is
\* followed by a pass that reads the active set, unless exit() is called
\* first, whenever the call falls between the loop's steps, and without the
\* help of the wait's timeout.
C37_NudgeNeverLost ==
    (control.nudged /\ control.thread = "running") ~> (~control.nudged \/ control.exit)

\* C37 witness: the nudge came after the wait had returned and before the
\* signal was cleared, and the clear has wiped the signal.
C37_Witness ==
    /\ control.nudged
    /\ ~control.signal
    /\ control.pc = "test"
    /\ ~control.exit

\* C37 witness: the nudge came during a pass, after its read.
C37_WitnessInPass ==
    /\ control.nudged
    /\ control.signal
    /\ control.pc \in {"update", "level"}
    /\ ~control.exit

====
